---- MODULE Spec2Model ----
(***************************************************************************)
(* A model of fix_fish_history.py: the per-line repair of unparseable      *)
(* YAML (fix_unparseable_fish_history and its helpers), the sort by the    *)
(* 'when' key (sort_fish_history) and the command-line driver main().      *)
(*                                                                         *)
(* Text is a sequence of one-character strings.  The characters that occur *)
(* are "-", " ", ":", ">", the line feed NL, digits and letters.           *)
(***************************************************************************)
EXTENDS Integers, Sequences, FiniteSets, TLC

VARIABLES
    pc,           \* position of main(): "start", "loop", "finish", "done"
    args,         \* the parsed command line (argparse namespace)
    lint,         \* main's local `lint`
    idx,          \* number of input files the loop has processed
    all_files,    \* main's local `all_files`
    log,          \* records emitted by logger.info, in order
    stdout,       \* documents printed by print(), in order
    outfile,      \* the file named by --out-fname: whether main opened it, the
                  \* mode, the text passed to write() and the file's content
    reads,        \* number of input files read so far
    u_in,         \* argument of a direct call of one of the functions
    u_flag,       \* count_differences of a direct call of sort_fish_history
    u_res         \* what the direct call returned ("none" before the call)

vars == <<pc, args, lint, idx, all_files, log, stdout, outfile, reads,
          u_in, u_flag, u_res>>

mainVars == <<pc, args, lint, idx, all_files, log, stdout, outfile, reads>>
unitVars == <<u_in, u_flag, u_res>>

(***************************************************************************)
(* Bounds of the model.                                                    *)
(***************************************************************************)
MaxValLen == 3     \* longest free-text value of a generated line
MaxLines == 4      \* most lines of a generated multi-line document
MaxRecs == 3       \* most records of a generated history
MaxWhen == 2       \* largest timestamp of a generated record
MaxFiles == 2      \* most input files on the command line

(***************************************************************************)
(* Text primitives: str.split("\n"), "\n".join, and scanning helpers.      *)
(***************************************************************************)
NL == "\n"
SP == " "

RECURSIVE IndexOf(_, _, _)
\* smallest j >= i with s[j] = c, or Len(s)+1
IndexOf(s, c, i) ==
    IF i > Len(s) THEN Len(s) + 1
    ELSE IF s[i] = c THEN i ELSE IndexOf(s, c, i + 1)

RECURSIVE SkipSpaces(_, _)
\* smallest j >= i with s[j] # " ", or Len(s)+1   (the regex fragment " *")
SkipSpaces(s, i) ==
    IF i > Len(s) THEN Len(s) + 1
    ELSE IF s[i] = SP THEN SkipSpaces(s, i + 1) ELSE i

RECURSIVE SplitLines(_)
\* history_str.split("\n")
SplitLines(s) ==
    LET i == IndexOf(s, NL, 1) IN
    IF i > Len(s) THEN <<s>>
    ELSE <<SubSeq(s, 1, i - 1)>> \o SplitLines(SubSeq(s, i + 1, Len(s)))

RECURSIVE JoinLines(_)
\* "\n".join(lines)
JoinLines(ls) ==
    IF ls = <<>> THEN <<>>
    ELSE IF Len(ls) = 1 THEN ls[1]
    ELSE ls[1] \o <<NL>> \o JoinLines(Tail(ls))

HasPrefix(s, p, i) ==
    /\ i + Len(p) - 1 <= Len(s)
    /\ SubSeq(s, i, i + Len(p) - 1) = p

(***************************************************************************)
(* The two patterns.  re.match anchors at the start; the trailing group    *)
(* "any characters, then end" takes the rest of the text when it holds no  *)
(* line feed, or the rest without one final line feed, and fails when a    *)
(* line feed occurs earlier.                                               *)
(***************************************************************************)
NoMatch == [matched |-> FALSE, group |-> <<>>]

DotStarEnd(s, k) ==
    LET rest == SubSeq(s, k, Len(s))
        n == IndexOf(rest, NL, 1)
    IN  IF n > Len(rest) THEN [matched |-> TRUE, group |-> rest]
        ELSE IF n = Len(rest)
             THEN [matched |-> TRUE, group |-> SubSeq(rest, 1, n - 1)]
             ELSE NoMatch

\* re.match(CMD_REGEX, line): "-", spaces, "cmd:", spaces, the captured rest
CMD_REGEX(line) ==
    IF ~HasPrefix(line, <<"-">>, 1) THEN NoMatch
    ELSE LET j == SkipSpaces(line, 2) IN
         IF ~HasPrefix(line, <<"c", "m", "d", ":">>, j) THEN NoMatch
         ELSE DotStarEnd(line, SkipSpaces(line, j + 4))

\* re.match(PATH_LIST_REGEX, line): four spaces, "-", spaces, the captured rest
PATH_LIST_REGEX(line) ==
    IF ~HasPrefix(line, <<SP, SP, SP, SP, "-">>, 1) THEN NoMatch
    ELSE DotStarEnd(line, SkipSpaces(line, 6))

(***************************************************************************)
(* possibly_broken: does yaml.safe_load raise a scanner, parser or         *)
(* constructor error on the line taken alone?  The model follows PyYAML's  *)
(* scanner in block context over the characters of this model ("-", ":",   *)
(* ">" and space are significant, every other character is plain):         *)
(*   allow  is Scanner.allow_simple_key,                                   *)
(*   key    is "a possible simple key is saved".                           *)
(* A "-" or ":" is an indicator only before a space or the end of line.   *)
(* A block entry needs allow ("sequence entries are not allowed here"      *)
(* otherwise).  A value indicator needs a saved key: without one the       *)
(* scanner refuses it when allow is false ("mapping values are not allowed *)
(* here") and the parser refuses it when allow is true (no KEY token       *)
(* precedes the VALUE token).  A block scalar header may be followed by    *)
(* blanks only.  A plain scalar runs to the next value indicator or to the *)
(* end of the line, and saves a key when allow holds.  No other token      *)
(* sequence over these characters makes the parser or constructor fail.    *)
(***************************************************************************)
AtBlank(s, i) == i > Len(s) \/ s[i] = SP

RECURSIVE PlainEnd(_, _)
\* Scanner.scan_plain: first value indicator at or after i, or Len(s)+1
PlainEnd(s, i) ==
    IF i > Len(s) THEN Len(s) + 1
    ELSE IF s[i] = ":" /\ AtBlank(s, i + 1) THEN i
    ELSE PlainEnd(s, i + 1)

\* Scanner.scan_block_scalar header: an optional chomping "-", then blanks only
BadBlockHeader(s, i) ==
    LET k == IF i <= Len(s) /\ s[i] = "-" THEN i + 1 ELSE i IN
    SkipSpaces(s, k) <= Len(s) \/ ~AtBlank(s, k)

RECURSIVE ScanError(_, _, _, _)
\* Scanner.fetch_more_tokens from position i
ScanError(s, i, allow, key) ==
    LET j == SkipSpaces(s, i) IN
    IF j > Len(s) THEN FALSE
    ELSE IF s[j] = "-" /\ AtBlank(s, j + 1)
         THEN IF ~allow THEN TRUE ELSE ScanError(s, j + 1, TRUE, FALSE)
    ELSE IF s[j] = ":" /\ AtBlank(s, j + 1)
         THEN IF key THEN ScanError(s, j + 1, FALSE, FALSE) ELSE TRUE
    ELSE IF s[j] = ">" THEN BadBlockHeader(s, j + 1)
    ELSE ScanError(s, PlainEnd(s, j), FALSE, allow \/ key)

\* possibly_broken(line, line_num); line_num only feeds the debug message
possibly_broken(line) == ScanError(line, 1, TRUE, FALSE)

(***************************************************************************)
(* The two rewrites into a folded block scalar.                            *)
(***************************************************************************)
UNKNOWN == <<"(", "U", "N", "K", "N", "O", "W", "N", ")">>
CmdBlockHead == <<"-", SP, "c", "m", "d", ":", SP, ">">>
PathBlockHead == <<SP, SP, SP, SP, "-", SP, ">">>
Indent4 == <<SP, SP, SP, SP>>
Indent6 == <<SP, SP, SP, SP, SP, SP>>

\* a plausible slip: the placeholder also replaces an empty captured value
fix_cmd_string_placeholder_on_empty(line) ==
    LET match == CMD_REGEX(line)
        string == IF match.matched /\ match.group # <<>> THEN match.group ELSE UNKNOWN
    IN  CmdBlockHead \o <<NL>> \o Indent4 \o string \o <<NL>>

\* a plausible slip: the rewrite does not end in a line feed
fix_cmd_string_no_trailing_nl(line) ==
    LET match == CMD_REGEX(line)
        string == IF match.matched THEN match.group ELSE UNKNOWN
    IN  CmdBlockHead \o <<NL>> \o Indent4 \o string

fix_cmd_string(line) ==
    LET match == CMD_REGEX(line)
        string == IF match.matched THEN match.group ELSE UNKNOWN
    IN  CmdBlockHead \o <<NL>> \o Indent4 \o string \o <<NL>>

fix_path_string(line) ==
    LET match == PATH_LIST_REGEX(line)
        string == IF match.matched THEN match.group ELSE UNKNOWN
    IN  PathBlockHead \o <<NL>> \o Indent6 \o string \o <<NL>>

(***************************************************************************)
(* fix_unparseable_fish_history: the loop over the lines, as a fold that   *)
(* carries the pair (lines, fixed).                                        *)
(***************************************************************************)
RECURSIVE FixLoop(_, _, _)
FixLoop(history_lines, lines, fixed) ==
    IF history_lines = <<>> THEN [lines |-> lines, fixed |-> fixed]
    ELSE LET line == Head(history_lines)
             is_cmd == CMD_REGEX(line).matched
             is_path == PATH_LIST_REGEX(line).matched
         IN  IF is_cmd /\ possibly_broken(line)
             THEN FixLoop(Tail(history_lines),
                          Append(lines, fix_cmd_string(line)), fixed + 1)
             ELSE IF is_path /\ possibly_broken(line)
             THEN FixLoop(Tail(history_lines),
                          Append(lines, fix_path_string(line)), fixed + 1)
             ELSE FixLoop(Tail(history_lines), Append(lines, line), fixed)

RECURSIVE FixLoopAllPaths(_, _, _)
\* a plausible slip: a path line is rewritten without asking possibly_broken
FixLoopAllPaths(history_lines, lines, fixed) ==
    IF history_lines = <<>> THEN [lines |-> lines, fixed |-> fixed]
    ELSE LET line == Head(history_lines)
             is_cmd == CMD_REGEX(line).matched
             is_path == PATH_LIST_REGEX(line).matched
         IN  IF is_cmd /\ possibly_broken(line)
             THEN FixLoopAllPaths(Tail(history_lines),
                                  Append(lines, fix_cmd_string(line)), fixed + 1)
             ELSE IF is_path
             THEN FixLoopAllPaths(Tail(history_lines),
                                  Append(lines, fix_path_string(line)), fixed + 1)
             ELSE FixLoopAllPaths(Tail(history_lines), Append(lines, line), fixed)

fix_unparseable_all_paths(history_str) ==
    LET r == FixLoopAllPaths(SplitLines(history_str), <<>>, 0)
    IN  [text |-> JoinLines(r.lines), fixed |-> r.fixed]

fix_unparseable_fish_history(history_str) ==
    LET r == FixLoop(SplitLines(history_str), <<>>, 0)
    IN  [text |-> JoinLines(r.lines), fixed |-> r.fixed]

(***************************************************************************)
(* yaml.safe_load and yaml.safe_dump on whole documents, for the fragment  *)
(* of YAML the histories of this model are written in: a block sequence of *)
(* mappings, each "- cmd: <scalar>" followed by an optional "  when: <n>", *)
(* the cmd scalar either plain or a folded block scalar (">") whose        *)
(* content is one more-indented line.  A record is a function whose domain *)
(* is {"cmd"} or {"cmd", "when"}, as the dict that safe_load builds.       *)
(* YamlLoad answers ok = FALSE where safe_load raises; every text it is    *)
(* applied to lies in this fragment or holds a line that is broken.        *)
(***************************************************************************)
Digits == <<"0", "1", "2", "3", "4", "5", "6", "7", "8", "9">>
IsDigit(c) == \E d \in 1..10 : Digits[d] = c
DigitVal(c) == (CHOOSE d \in 1..10 : Digits[d] = c) - 1

RECURSIVE TextToInt(_, _)
TextToInt(s, acc) ==
    IF s = <<>> THEN acc ELSE TextToInt(Tail(s), 10 * acc + DigitVal(Head(s)))

RECURSIVE IntToText(_)
IntToText(n) ==
    IF n < 10 THEN <<Digits[n + 1]>>
    ELSE IntToText(n \div 10) \o <<Digits[(n % 10) + 1]>>

IsBlankLine(line) == SkipSpaces(line, 1) > Len(line)
IndentOf(line) == SkipSpaces(line, 1) - 1

RECURSIVE RStrip(_)
RStrip(s) ==
    IF s # <<>> /\ s[Len(s)] = SP THEN RStrip(SubSeq(s, 1, Len(s) - 1)) ELSE s

CmdKey == <<"-", SP, "c", "m", "d", ":">>
WhenKey == <<SP, SP, "w", "h", "e", "n", ":">>

SetLast(recs, rec) == [recs EXCEPT ![Len(recs)] = rec]

RECURSIVE LoadLines(_, _, _)
\* mode "top": between fields; "head": after "- cmd: >", before its content;
\* "tail": after the content line of the block scalar
LoadLines(ls, recs, mode) ==
    IF ls = <<>> THEN [ok |-> TRUE, obj |-> recs]
    ELSE
    LET line == Head(ls)
        rest == Tail(ls)
        value == RStrip(SubSeq(line, SkipSpaces(line, 7), Len(line)))
        wvalue == RStrip(SubSeq(line, SkipSpaces(line, 8), Len(line)))
    IN  IF IsBlankLine(line) THEN LoadLines(rest, recs, mode)
        ELSE IF mode = "head" /\ IndentOf(line) > 2
        THEN LoadLines(rest,
                       SetLast(recs, [cmd |-> SubSeq(line, IndentOf(line) + 1, Len(line))
                                              \o (IF rest # <<>> THEN <<NL>> ELSE <<>>)]),
                       "tail")
        ELSE IF mode = "tail" /\ IndentOf(line) > 2
        THEN [ok |-> FALSE, obj |-> <<>>]
        ELSE IF HasPrefix(line, CmdKey, 1) /\ AtBlank(line, 7)
        THEN IF possibly_broken(line) \/ value = <<>>
             THEN [ok |-> FALSE, obj |-> <<>>]
             ELSE IF value = <<">">>
             THEN LoadLines(rest, Append(recs, [cmd |-> <<>>]), "head")
             ELSE LoadLines(rest, Append(recs, [cmd |-> value]), "top")
        ELSE IF /\ HasPrefix(line, WhenKey, 1) /\ AtBlank(line, 8)
                /\ recs # <<>> /\ DOMAIN recs[Len(recs)] = {"cmd"}
                /\ wvalue # <<>> /\ \A i \in 1..Len(wvalue) : IsDigit(wvalue[i])
        THEN LoadLines(rest,
                       SetLast(recs, [cmd |-> recs[Len(recs)].cmd,
                                      when |-> TextToInt(wvalue, 0)]),
                       "top")
        ELSE [ok |-> FALSE, obj |-> <<>>]

YamlLoad(text) == LoadLines(SplitLines(text), <<>>, "top")

\* Emitter.analyze_scalar / choose_scalar_style: may the string go out plain?
PlainOk(v) ==
    /\ v # <<>>
    /\ v[1] \notin {SP, ">", "'"}
    /\ v[Len(v)] # SP
    /\ \A i \in 1..Len(v) : /\ v[i] # NL
                            /\ ~(v[i] \in {":", "-"} /\ i = 1 /\ AtBlank(v, 2))
                            /\ ~(v[i] = ":" /\ AtBlank(v, i + 1))

\* Emitter.write_single_quoted, for a string whose only line feed is its last
SingleQuoted(v) ==
    IF v # <<>> /\ v[Len(v)] = NL
    THEN <<"'">> \o SubSeq(v, 1, Len(v) - 1) \o <<NL, NL>> \o Indent4 \o <<"'">>
    ELSE <<"'">> \o v \o <<"'">>

DumpRecord(rec) ==
    CmdKey \o <<SP>> \o (IF PlainOk(rec.cmd) THEN rec.cmd ELSE SingleQuoted(rec.cmd))
    \o <<NL>>
    \o (IF "when" \in DOMAIN rec
        THEN WhenKey \o <<SP>> \o IntToText(rec.when) \o <<NL>> ELSE <<>>)

RECURSIVE YamlDump(_)
YamlDump(obj) ==
    IF obj = <<>> THEN <<>> ELSE DumpRecord(Head(obj)) \o YamlDump(Tail(obj))

(***************************************************************************)
(* sort_fish_history.                                                      *)
(***************************************************************************)
\* the nested function key(obj): obj.get("when", 0)
key(obj) == IF "when" \in DOMAIN obj THEN obj.when ELSE 0

RECURSIVE InsertStable(_, _)
\* x goes behind every element whose key is not larger
InsertStable(sorted, x) ==
    IF sorted = <<>> THEN <<x>>
    ELSE IF key(Head(sorted)) <= key(x)
         THEN <<Head(sorted)>> \o InsertStable(Tail(sorted), x)
         ELSE <<x>> \o sorted

RECURSIVE InsertUnstable(_, _)
\* x goes in front of the elements with an equal key
InsertUnstable(sorted, x) ==
    IF sorted = <<>> THEN <<x>>
    ELSE IF key(Head(sorted)) < key(x)
         THEN <<Head(sorted)>> \o InsertUnstable(Tail(sorted), x)
         ELSE <<x>> \o sorted

RECURSIVE SortFrom(_, _)
SortFrom(todo, done) ==
    IF todo = <<>> THEN done ELSE SortFrom(Tail(todo), InsertStable(done, Head(todo)))

RECURSIVE SortFromUnstable(_, _)
SortFromUnstable(todo, done) ==
    IF todo = <<>> THEN done
    ELSE SortFromUnstable(Tail(todo), InsertUnstable(done, Head(todo)))

\* a plausible slip: a sort that is not stable
sorted_unstable(history_obj) == SortFromUnstable(history_obj, <<>>)

\* sorted(history_obj, key=key) and history_obj.sort(key=key): stable, ascending
sorted_by_key(history_obj) == SortFrom(history_obj, <<>>)

RECURSIVE count_key_differences(_, _)
\* a plausible slip: records are compared by their sort key only
count_key_differences(a, b) ==
    IF a = <<>> \/ b = <<>> THEN 0
    ELSE (IF key(Head(a)) # key(Head(b)) THEN 1 ELSE 0)
         + count_key_differences(Tail(a), Tail(b))

RECURSIVE count_differences_loop(_, _)
\* for obj1, obj2 in zip(history_obj, sorted_history_obj): if obj1 != obj2
count_differences_loop(a, b) ==
    IF a = <<>> \/ b = <<>> THEN 0
    ELSE (IF Head(a) # Head(b) THEN 1 ELSE 0)
         + count_differences_loop(Tail(a), Tail(b))

Raised == [raised |-> TRUE, text |-> <<>>, fixed |-> -1, loaded |-> <<>>,
           history_obj |-> <<>>, sorted_history_obj |-> <<>>]

\* loaded is the list as safe_load returned it; history_obj is the same list
\* as it is when the function returns: list.sort sorts it in place, sorted()
\* leaves it alone.  safe_load of a text without any entry gives None, on
\* which both branches raise.
sort_fish_history(history_str, count_differences) ==
    LET loaded == YamlLoad(history_str) IN
    IF ~loaded.ok \/ loaded.obj = <<>> THEN Raised
    ELSE LET sorted_history_obj == sorted_by_key(loaded.obj) IN
         IF ~count_differences
         THEN [raised |-> FALSE, text |-> YamlDump(sorted_history_obj), fixed |-> -1,
               loaded |-> loaded.obj,
               history_obj |-> sorted_history_obj,
               sorted_history_obj |-> sorted_history_obj]
         ELSE [raised |-> FALSE, text |-> YamlDump(sorted_history_obj),
               fixed |-> count_differences_loop(loaded.obj, sorted_history_obj),
               loaded |-> loaded.obj,
               history_obj |-> loaded.obj,
               sorted_history_obj |-> sorted_history_obj]

(***************************************************************************)
(* Inputs.                                                                 *)
(***************************************************************************)
SeqsUpTo(S, n) == UNION {[1..k -> S] : k \in 0..n}

\* free-text values, and the shapes a line can start with
ValChars == {"a", ":", SP, ">", "-"}
Values == SeqsUpTo(ValChars, MaxValLen)
Prefixes ==
    { <<"-", SP, "c", "m", "d", ":", SP>>,      \* "- cmd: "
      <<"-", SP, "c", "m", "d", ":">>,          \* "- cmd:"
      <<"-", "c", "m", "d", ":", SP>>,          \* "-cmd: "
      <<SP, SP, SP, SP, "-", SP>>,              \* four spaces, "- "
      <<SP, SP, SP, SP, "-">>,                  \* four spaces, "-"
      <<SP, SP, SP, "-", SP>>,                  \* three spaces, "- "
      <<SP, SP, SP, SP, SP, "-", SP>>,          \* five spaces, "- "
      <<SP, SP, "w", "h", "e", "n", ":", SP>>,  \* "  when: "
      <<>> }
LineSet == {p \o v : p \in Prefixes, v \in Values}

\* the lines of the test histories, with "a" for a word
GoodCmdLine == <<"-", SP, "c", "m", "d", ":", SP, "a">>
BadCmdLine == <<"-", SP, "c", "m", "d", ":", SP, "a", ":", SP, "a">>
WhenLine == <<SP, SP, "w", "h", "e", "n", ":", SP, "1">>
PathsLine == <<SP, SP, "p", "a", "t", "h", "s", ":">>
GoodPathLine == <<SP, SP, SP, SP, "-", SP, "a">>
BadPathLine == <<SP, SP, SP, SP, "-", SP, "a", ":", SP, "a", ":", SP, "a">>
DocLines == {GoodCmdLine, BadCmdLine, WhenLine, PathsLine, GoodPathLine, BadPathLine, <<>>}

FixInputs ==
    LineSet \cup {JoinLines(d) : d \in UNION {[1..k -> DocLines] : k \in 2..MaxLines}}

\* histories: records with a plain or a colon-bearing cmd and an optional when
CmdValues == {<<"a">>, <<"b">>, <<"a", ":", SP, "a">>}
Records ==
    {[cmd |-> c] : c \in CmdValues}
    \cup {[cmd |-> c, when |-> w] : c \in CmdValues, w \in 0..MaxWhen}

\* the entry as it stands in a history file, the cmd inline
EntryText(rec) ==
    CmdKey \o <<SP>> \o rec.cmd
    \o (IF "when" \in DOMAIN rec
        THEN <<NL>> \o WhenKey \o <<SP>> \o IntToText(rec.when) ELSE <<>>)

HistoryText(recs) == JoinLines([i \in 1..Len(recs) |-> EntryText(recs[i])])

SortInputs == {HistoryText(recs) : recs \in SeqsUpTo(Records, MaxRecs) \ {<<>>}}

\* the input files of main()
FileTexts ==
    { HistoryText(<<[cmd |-> <<"a">>, when |-> 2]>>),
      HistoryText(<<[cmd |-> <<"b">>, when |-> 1]>>),
      HistoryText(<<[cmd |-> <<"a", ":", SP, "a">>, when |-> 1], [cmd |-> <<"b">>]>>) }

OldContent == <<"-", SP, "c", "m", "d", ":", SP, "o", NL>>

NoResult == [fn |-> "none", raised |-> FALSE, text |-> <<>>, fixed |-> 0,
             loaded |-> <<>>, history_obj |-> <<>>, sorted_history_obj |-> <<>>]

MainIdle ==
    /\ pc = "idle"
    /\ args = [lint |-> FALSE, nosort |-> FALSE, noparsefix |-> FALSE,
               append |-> FALSE, out_fname |-> FALSE, fish_history_files |-> <<>>]
    /\ lint = FALSE
    /\ idx = 0
    /\ all_files = <<>>
    /\ log = <<>>
    /\ stdout = <<>>
    /\ outfile = [opened |-> FALSE, mode |-> "none", written |-> <<>>,
                  content |-> OldContent]
    /\ reads = 0

UnitIdle ==
    /\ u_in = <<>>
    /\ u_flag = FALSE
    /\ u_res = NoResult

(***************************************************************************)
(* main().  args.out_fname is TRUE when --out-fname names a file; an input *)
(* file is given by its content.  --verbose and --run-pytests change       *)
(* nothing of what is modelled.                                            *)
(***************************************************************************)
Info(kind, n) == [kind |-> kind, n |-> n]

InitMain ==
    /\ pc = "start"
    /\ args \in [lint : BOOLEAN, nosort : BOOLEAN, noparsefix : BOOLEAN,
                 append : BOOLEAN, out_fname : BOOLEAN,
                 fish_history_files : SeqsUpTo(FileTexts, MaxFiles) \ {<<>>}]
    /\ lint = FALSE
    /\ idx = 0
    /\ all_files = <<>>
    /\ log = <<>>
    /\ stdout = <<>>
    /\ outfile = [opened |-> FALSE, mode |-> "none", written |-> <<>>,
                  content |-> OldContent]
    /\ reads = 0
    /\ UnitIdle

\* parse_args, then: lint = args.lint and args.out_fname is None; all_files = []
ParseArgs ==
    /\ pc = "start"
    /\ lint' = (args.lint /\ ~args.out_fname)
    /\ all_files' = <<>>
    /\ pc' = "loop"
    /\ UNCHANGED <<args, idx, log, stdout, outfile, reads>>
    /\ UNCHANGED unitVars

\* one iteration of: for fname in args.fish_history_files
ProcessFile ==
    /\ pc = "loop"
    /\ idx < Len(args.fish_history_files)
    /\ LET read == args.fish_history_files[idx + 1]
           fix1 == fix_unparseable_fish_history(read)
           history_str == IF ~args.noparsefix THEN fix1.text ELSE read
           log1 == Append(log, Info("file", idx + 1))
           log2 == IF ~args.noparsefix
                   THEN Append(log1, Info("unparseable", fix1.fixed)) ELSE log1
           fix2 == fix_unparseable_fish_history(history_str)
           log3 == IF lint /\ ~args.nosort
                   THEN Append(log2, Info("order", fix2.fixed)) ELSE log2
       IN  /\ reads' = reads + 1
           /\ all_files' = IF ~lint THEN Append(all_files, history_str) ELSE all_files
           /\ log' = log3
    /\ idx' = idx + 1
    /\ pc' = IF idx + 1 = Len(args.fish_history_files) THEN "finish" ELSE "loop"
    /\ UNCHANGED <<args, lint, stdout, outfile>>
    /\ UNCHANGED unitVars

\* what the block under "if not lint" computes before it writes
FinalDocument ==
    LET joined == JoinLines(all_files)
        fix3 == fix_unparseable_fish_history(joined)
    IN  IF ~args.nosort
        THEN [history_str |-> fix3.text, log |-> Append(log, Info("order", fix3.fixed))]
        ELSE [history_str |-> joined, log |-> log]

\* if not lint: ... with open(args.out_fname, out_filemode) as outfile: write
WriteOut ==
    /\ pc = "finish"
    /\ ~lint
    /\ args.out_fname
    /\ log' = FinalDocument.log
    /\ outfile' = [opened |-> TRUE,
                   mode |-> IF args.append THEN "a" ELSE "w",
                   written |-> FinalDocument.history_str,
                   content |-> IF args.append
                               THEN outfile.content \o FinalDocument.history_str
                               ELSE FinalDocument.history_str]
    /\ pc' = "done"
    /\ UNCHANGED <<args, lint, idx, all_files, stdout, reads>>
    /\ UNCHANGED unitVars

\* if not lint: ... else: print(history_str)
PrintOut ==
    /\ pc = "finish"
    /\ ~lint
    /\ ~args.out_fname
    /\ log' = FinalDocument.log
    /\ stdout' = Append(stdout, FinalDocument.history_str)
    /\ pc' = "done"
    /\ UNCHANGED <<args, lint, idx, all_files, outfile, reads>>
    /\ UNCHANGED unitVars

\* lint: main returns after the loop
LintReturn ==
    /\ pc = "finish"
    /\ lint
    /\ pc' = "done"
    /\ UNCHANGED <<args, lint, idx, all_files, log, stdout, outfile, reads>>
    /\ UNCHANGED unitVars

Next == ParseArgs \/ ProcessFile \/ WriteOut \/ PrintOut \/ LintReturn

Spec == InitMain /\ [][Next]_vars

(***************************************************************************)
(* Direct calls of the repair functions, as the tests make them.           *)
(***************************************************************************)
InitFix ==
    /\ MainIdle
    /\ u_in \in FixInputs
    /\ u_flag = FALSE
    /\ u_res = NoResult

CallFixHistory ==
    /\ u_res.fn = "none"
    /\ LET r == fix_unparseable_fish_history(u_in) IN
       u_res' = [NoResult EXCEPT !.fn = "fix_unparseable_fish_history",
                                 !.text = r.text, !.fixed = r.fixed]
    /\ UNCHANGED <<u_in, u_flag>>
    /\ UNCHANGED mainVars

CallFixCmd ==
    /\ u_res.fn = "none"
    /\ u_res' = [NoResult EXCEPT !.fn = "fix_cmd_string", !.text = fix_cmd_string(u_in)]
    /\ UNCHANGED <<u_in, u_flag>>
    /\ UNCHANGED mainVars

CallFixPath ==
    /\ u_res.fn = "none"
    /\ u_res' = [NoResult EXCEPT !.fn = "fix_path_string", !.text = fix_path_string(u_in)]
    /\ UNCHANGED <<u_in, u_flag>>
    /\ UNCHANGED mainVars

NextFix == CallFixHistory \/ CallFixCmd \/ CallFixPath

SpecFix == InitFix /\ [][NextFix]_vars

(***************************************************************************)
(* Direct calls of sort_fish_history: on a history as it is, and on a      *)
(* history that went through fix_unparseable_fish_history first.           *)
(***************************************************************************)
InitSort ==
    /\ MainIdle
    /\ u_in \in SortInputs
    /\ u_flag \in BOOLEAN
    /\ u_res = NoResult

CallSort ==
    /\ u_res.fn = "none"
    /\ u_res' = sort_fish_history(u_in, u_flag) @@ [fn |-> "sort_fish_history"]
    /\ UNCHANGED <<u_in, u_flag>>
    /\ UNCHANGED mainVars

CallFixThenSort ==
    /\ u_res.fn = "none"
    /\ LET fixed == fix_unparseable_fish_history(u_in) IN
       u_res' = sort_fish_history(fixed.text, u_flag) @@ [fn |-> "fix_then_sort"]
    /\ UNCHANGED <<u_in, u_flag>>
    /\ UNCHANGED mainVars

NextSort == CallSort \/ CallFixThenSort

SpecSort == InitSort /\ [][NextSort]_vars

(***************************************************************************)
(* Vocabulary of the properties.                                           *)
(***************************************************************************)
\* the document main() wrote or printed (empty when it did neither)
Written ==
    IF outfile.opened THEN outfile.written
    ELSE IF stdout # <<>> THEN stdout[Len(stdout)] ELSE <<>>

WhenOf(rec) == IF "when" \in DOMAIN rec THEN rec.when ELSE 0

NonDecreasing(recs) ==
    \A i \in 1..(Len(recs) - 1) : WhenOf(recs[i]) <= WhenOf(recs[i + 1])

\* the text file i has after the per-file stage of main()
PerFileText(i) ==
    IF args.noparsefix THEN args.fish_history_files[i]
    ELSE fix_unparseable_fish_history(args.fish_history_files[i]).text

NumFiles == Len(args.fish_history_files)
LogOf(kind) == SelectSeq(log, LAMBDA e : e.kind = kind)

\* the records of the history a direct call of sort_fish_history was given
ParsedInput == u_res.loaded

SortReturned == u_res.fn \in {"sort_fish_history", "fix_then_sort"} /\ ~u_res.raised

\* a line in one of the two roles that fails to parse alone
InRole(line) == CMD_REGEX(line).matched \/ PATH_LIST_REGEX(line).matched
MustRewrite(line) == InRole(line) /\ possibly_broken(line)
InLines == SplitLines(u_in)
OutLines == SplitLines(u_res.text)
RewrittenBefore(i) == Cardinality({j \in 1..(i - 1) : MustRewrite(InLines[j])})
\* where input line i starts in the output
PosOf(i) == i + 2 * RewrittenBefore(i)
FixReturned == u_res.fn = "fix_unparseable_fish_history"

(***************************************************************************)
(* C1 (as claimed): a run of main() without --lint and without --nosort    *)
(* writes a document whose entries are in non-decreasing order of 'when'.  *)
(* main() never calls sort_fish_history: it calls                          *)
(* fix_unparseable_fish_history on the joined text instead.                *)
(***************************************************************************)
C1_WrittenDocumentIsSorted ==
    (pc = "done" /\ ~args.lint /\ ~args.nosort)
        => /\ YamlLoad(Written).ok
           /\ NonDecreasing(YamlLoad(Written).obj)

(***************************************************************************)
(* C4 (as claimed): when --lint is given together with --out-fname the run *)
(* stops before any input file is read: nothing is read, logged as a       *)
(* count, written or printed.  main() clears `lint` and runs as a fix.     *)
(***************************************************************************)
C4_LintWithOutFnameReadsNothing ==
    (args.lint /\ args.out_fname)
        => /\ reads = 0
           /\ ~outfile.opened
           /\ stdout = <<>>
           /\ LogOf("unparseable") = <<>> /\ LogOf("order") = <<>>

(***************************************************************************)
(* C5 (as claimed): in every run with --lint, whatever the other flags,    *)
(* the output file is not opened and no document is printed.               *)
(***************************************************************************)
C5_LintTouchesNoOutput ==
    args.lint => (~outfile.opened /\ outfile.content = OldContent /\ stdout = <<>>)

(***************************************************************************)
(* C8 (as claimed): in a run without --lint, with --noparsefix no line of  *)
(* the written document is a block-scalar head (the inputs hold none), and *)
(* with --nosort the written document is the per-file texts joined in      *)
(* input order.                                                            *)
(***************************************************************************)
C8_StagesAreSkippedIndividually ==
    (pc = "done" /\ ~args.lint)
        => /\ args.noparsefix
                => \A i \in 1..Len(SplitLines(Written)) :
                       SplitLines(Written)[i] \notin {CmdBlockHead, PathBlockHead}
           /\ args.nosort
                => Written = JoinLines([i \in 1..NumFiles |-> PerFileText(i)])

(***************************************************************************)
(* C9 (as claimed): with repair and sort both enabled, in lint mode and in *)
(* fix mode, a finished run has logged the unparseable count once per file *)
(* (the fix count of that file) and the order count exactly once, as the   *)
(* last record, with the diff count of sorting the merged document.        *)
(***************************************************************************)
C9_CountsAreReported ==
    (pc = "done" /\ ~args.noparsefix /\ ~args.nosort)
        => /\ Len(LogOf("unparseable")) = NumFiles
           /\ \A i \in 1..NumFiles :
                  LogOf("unparseable")[i].n
                      = fix_unparseable_fish_history(args.fish_history_files[i]).fixed
           /\ Len(LogOf("order")) = 1
           /\ log[Len(log)].kind = "order"
           /\ log[Len(log)].n
                  = sort_fish_history(JoinLines([i \in 1..NumFiles |-> PerFileText(i)]),
                                      TRUE).fixed

(***************************************************************************)
(* C2: the records sort_fish_history serializes are the stable sort of the *)
(* input records by 'when' (0 when missing), for both values of            *)
(* count_differences: adjacent keys do not decrease, and for every key the *)
(* records with that key are the same, in the same order, as in the input  *)
(* (so the output is a permutation and ties keep their input order).       *)
(***************************************************************************)
WithKey(recs, k) == SelectSeq(recs, LAMBDA r : WhenOf(r) = k)

C2_StableSortByWhen ==
    SortReturned
        => LET out == u_res.sorted_history_obj
               inp == ParsedInput
           IN  /\ Len(out) = Len(inp)
               /\ NonDecreasing(out)
               /\ \A k \in 0..(MaxWhen + 1) : WithKey(out, k) = WithKey(inp, k)

\* two different records with key 0, one without 'when' and one with when = 0,
\* stand behind a record with a larger key
C2_Witness ==
    /\ u_res.fn = "sort_fish_history" /\ ~u_res.raised /\ ~u_flag
    /\ LET inp == ParsedInput IN
       /\ Len(inp) = 3
       /\ WhenOf(inp[1]) > 0
       /\ DOMAIN inp[2] = {"cmd"}
       /\ DOMAIN inp[3] = {"cmd", "when"} /\ inp[3].when = 0
       /\ u_res.sorted_history_obj = <<inp[2], inp[3], inp[1]>>

(***************************************************************************)
(* C3: the count sort_fish_history returns is, with count_differences, the *)
(* number of positions at which the input record differs from the sorted   *)
(* record (0 when the input is sorted, 2 when exactly two different        *)
(* records swap places, also after a repair), and -1 without it.           *)
(***************************************************************************)
DiffersAt(inp, out) == {i \in 1..Len(inp) : inp[i] # out[i]}

C3_CountIsPositionalMismatches ==
    SortReturned
        => LET inp == ParsedInput
               mismatches == Cardinality(DiffersAt(inp, u_res.sorted_history_obj))
           IN  /\ u_flag => u_res.fixed = mismatches
               /\ (u_flag /\ NonDecreasing(inp)) => u_res.fixed = 0
               /\ (u_flag /\ mismatches = 2) => u_res.fixed = 2
               /\ ~u_flag => u_res.fixed = -1

\* an unsorted history with a broken cmd line, repaired and then sorted: two
\* records swap places around one that stays
C3_Witness ==
    /\ u_res.fn = "fix_then_sort" /\ ~u_res.raised /\ u_flag
    /\ fix_unparseable_fish_history(u_in).fixed > 0
    /\ u_res.fixed = 2
    /\ LET inp == ParsedInput IN
       /\ Len(inp) = 3
       /\ u_res.sorted_history_obj = <<inp[3], inp[2], inp[1]>>
       /\ inp[1] # inp[3]

(***************************************************************************)
(* C6 (as claimed): the text fix_unparseable_fish_history returns has as   *)
(* many lines as its input.                                                *)
(***************************************************************************)
C6_SameNumberOfLines ==
    FixReturned => Len(OutLines) = Len(InLines)

(***************************************************************************)
(* C6 (amended): the returned text has the input's number of lines plus    *)
(* two for every rewritten line (a rewrite holds a line feed and ends in   *)
(* one), and a line that is not rewritten stands at its input index plus   *)
(* twice the number of rewritten lines before it.                          *)
(***************************************************************************)
C6_TwoMoreLinesPerRewrite ==
    FixReturned
        => /\ Len(OutLines) = Len(InLines) + 2 * u_res.fixed
           /\ \A i \in 1..Len(InLines) :
                  ~MustRewrite(InLines[i])
                      => /\ PosOf(i) <= Len(OutLines)
                         /\ OutLines[PosOf(i)] = InLines[i]

\* a broken cmd line is rewritten and a later line keeps its text
C6_Witness ==
    /\ FixReturned
    /\ u_res.fixed >= 1
    /\ Len(InLines) >= 2
    /\ CMD_REGEX(InLines[1]).matched /\ MustRewrite(InLines[1])
    /\ ~MustRewrite(InLines[2])
    /\ OutLines[4] = InLines[2]

(***************************************************************************)
(* C7: fix_unparseable_fish_history rewrites a line exactly when the line  *)
(* is in one of the two roles and fails to parse alone: such a line gives  *)
(* way to the block head of its role, every other line is unchanged, no    *)
(* line is in both roles, and fix_count is the number of rewritten lines.  *)
(***************************************************************************)
C7_RewritesExactlyBrokenRoleLines ==
    FixReturned
        => /\ \A i \in 1..Len(InLines) :
                  LET line == InLines[i] IN
                  /\ ~(CMD_REGEX(line).matched /\ PATH_LIST_REGEX(line).matched)
                  /\ PosOf(i) <= Len(OutLines)
                  /\ MustRewrite(line) <=> OutLines[PosOf(i)] # line
                  /\ (MustRewrite(line) /\ CMD_REGEX(line).matched)
                         => OutLines[PosOf(i)] = CmdBlockHead
                  /\ (MustRewrite(line) /\ PATH_LIST_REGEX(line).matched)
                         => OutLines[PosOf(i)] = PathBlockHead
           /\ u_res.fixed = Cardinality({i \in 1..Len(InLines) : MustRewrite(InLines[i])})

\* the test history: a broken cmd line, a sound cmd line, "paths:" and a
\* broken path line give fix_count = 2
C7_Witness ==
    /\ FixReturned
    /\ InLines = <<BadCmdLine, GoodCmdLine, PathsLine, BadPathLine>>
    /\ u_res.fixed = 2
    /\ OutLines[1] = CmdBlockHead
    /\ OutLines[4] = GoodCmdLine
    /\ OutLines[6] = PathBlockHead

(***************************************************************************)
(* C10 (as claimed): for a line that matches its pattern with an empty     *)
(* captured value, fix_cmd_string and fix_path_string put the placeholder  *)
(* token in the content line.                                              *)
(***************************************************************************)
ContentLine == SplitLines(u_res.text)[2]

C10_PlaceholderForEmptyValue ==
    /\ (u_res.fn = "fix_cmd_string" /\ CMD_REGEX(u_in).matched
            /\ CMD_REGEX(u_in).group = <<>>)
        => ContentLine = Indent4 \o UNKNOWN
    /\ (u_res.fn = "fix_path_string" /\ PATH_LIST_REGEX(u_in).matched
            /\ PATH_LIST_REGEX(u_in).group = <<>>)
        => ContentLine = Indent6 \o UNKNOWN

(***************************************************************************)
(* C10 (amended): the placeholder token stands in the content line exactly *)
(* when the line does not match the pattern; when it matches, the content  *)
(* line holds the captured value as it is, so a matching line with an      *)
(* empty captured value is rewritten with an empty block content.          *)
(***************************************************************************)
C10_PlaceholderOnlyWithoutMatch ==
    /\ u_res.fn = "fix_cmd_string"
        => /\ SplitLines(u_res.text)[1] = CmdBlockHead
           /\ ContentLine = Indent4 \o (IF CMD_REGEX(u_in).matched
                                        THEN CMD_REGEX(u_in).group ELSE UNKNOWN)
    /\ u_res.fn = "fix_path_string"
        => /\ SplitLines(u_res.text)[1] = PathBlockHead
           /\ ContentLine = Indent6 \o (IF PATH_LIST_REGEX(u_in).matched
                                        THEN PATH_LIST_REGEX(u_in).group ELSE UNKNOWN)

\* fix_cmd_string on "- cmd:": the pattern matches, nothing is captured, and
\* the content line is the bare indentation
C10_Witness ==
    /\ u_res.fn = "fix_cmd_string"
    /\ CMD_REGEX(u_in).matched /\ CMD_REGEX(u_in).group = <<>>
    /\ ContentLine = Indent4

====
